---------------------------- MODULE Spec2Model ----------------------------
(***************************************************************************)
(* Model of plugins/modules/aws_athena_info.py: one invocation of the      *)
(* module.  main() builds the AnsibleAWSModule (argument validation),      *)
(* calls _athena() (client, paginator or single-shot call, wrapped in      *)
(* AWSRetry.exponential_backoff and in its own try/except), then consumes  *)
(* the returned object in the branch of the active flag and calls          *)
(* exit_json.                                                              *)
(*                                                                         *)
(* The collaborators that are not part of the file are modelled by what    *)
(* the file relies on:                                                     *)
(*  - AnsibleAWSModule checks mutually_exclusive and required_if on the    *)
(*    parameters the task SUPPLIED (a flag supplied as false counts as     *)
(*    supplied), then sets every parameter that was not supplied to None;  *)
(*  - fail_json / fail_json_aws / exit_json end the process;               *)
(*  - a botocore paginator is lazy: paginate() sends nothing, every page   *)
(*    is requested while main() iterates, and the iteration stops after    *)
(*    the page that carries no continuation token;                         *)
(*  - a PageIterator is iterable but not subscriptable;                    *)
(*  - an un-paginated list call returns the first page of the result set;  *)
(*  - camel_dict_to_snake_dict renames CamelCase keys to snake_case.       *)
(***************************************************************************)
EXTENDS Integers, Sequences, FiniteSets, TLC

\* Python's None: the value of a parameter the task did not supply.
None == "None"

(***************************************************************************)
(* Bounds of the model.                                                    *)
(***************************************************************************)
\* pages in the service's result set (at least one: a list call always answers)
MaxPages == 3
\* records per page
MaxRecs == 2

\* AWSRetry.exponential_backoff(retries=5, delay=5)
retries == 5

(***************************************************************************)
(* Strings that are transformed are sequences of one-character strings.    *)
(***************************************************************************)
Upper == {"C", "N", "T", "S"}
LowerCh == {"a", "b", "e", "g", "l", "m", "o", "p", "t", "y"}
ToLower == ("C" :> "c") @@ ("N" :> "n") @@ ("T" :> "t") @@ ("S" :> "s")

\* wire keys of the records of the four list operations
CatalogName == <<"C","a","t","a","l","o","g","N","a","m","e">>
Name == <<"N","a","m","e">>
TableType == <<"T","a","b","l","e","T","y","p","e">>
State == <<"S","t","a","t","e">>

FlagValues == {None, "False", "True"}
\* a service error is retryable (throttling, ...) or not
ErrKinds == {"transient", "terminal"}

VARIABLES
    params,          \* module.params
    can_paginate,    \* athena.can_paginate('list_work_groups')
    pages,           \* the result set held by the service, page by page
    pc,              \* position of the invocation
    client,          \* module.client('athena') returned a client
    requested,       \* operation (and arguments) _athena selected
    calls,           \* requests sent to the service, in order
    _it,             \* value returned by _athena
    default_return,  \* __default_return
    output,          \* what exit_json was called with
    attempts,        \* executions of the body of _athena
    err,             \* kind of the service error raised, if any
    fieldRead,       \* response field main() subscripted
    exc              \* exception that left main() unhandled

vars == <<params, can_paginate, pages, pc, client, requested, calls, _it,
          default_return, output, attempts, err, fieldRead, exc>>

\* Python truthiness of a flag value
Truthy(v) == v = "True"

(***************************************************************************)
(* Argument validation (AnsibleAWSModule(...), lines 194-206).             *)
(***************************************************************************)
\* a slip: list_database_tables requires the catalog name only
required_if_name_only ==
    { [key |-> "list_databases", val |-> "True", requirements |-> {"name"}],
      [key |-> "list_database_tables", val |-> "True",
       requirements |-> {"name"}] }

required_if ==
    { [key |-> "list_databases", val |-> "True", requirements |-> {"name"}],
      [key |-> "list_database_tables", val |-> "True",
       requirements |-> {"name", "database_name"}] }

\* a slip: the tuple of the three mode flags is left out
mutually_exclusive_no_modes ==
    { {"name", "list_work_groups"},
      {"database_name", "list_work_groups"} }

mutually_exclusive ==
    { {"list_databases", "list_database_tables", "list_work_groups"},
      {"name", "list_work_groups"},
      {"database_name", "list_work_groups"} }

\* number of the terms that the task supplied
count_terms(terms, p) == Cardinality({t \in terms : p[t] # None})

\* a slip: only the first tuple, the one of the mode flags, is checked
check_mutually_exclusive_first(p) ==
    count_terms({"list_databases", "list_database_tables",
                 "list_work_groups"}, p) <= 1

check_mutually_exclusive(p) ==
    \A check \in mutually_exclusive : count_terms(check, p) <= 1

check_required_if(p) ==
    \A r \in required_if :
        p[r.key] = r.val => \A q \in r.requirements : count_terms({q}, p) > 0

Valid(p) == check_mutually_exclusive(p) /\ check_required_if(p)

(***************************************************************************)
(* The service.                                                            *)
(***************************************************************************)
\* the list field of the response of an operation
ResponseField(op) ==
    CASE op = "list_databases" -> "DatabaseList"
      [] op = "list_table_metadata" -> "TableMetadataList"
      [] op = "list_work_groups" -> "WorkGroups"
      [] op = "list_data_catalogs" -> "DataCatalogsSummary"

\* the wire key of the records of an operation
WireKey(op) ==
    CASE op = "list_databases" -> Name
      [] op = "list_table_metadata" -> TableType
      [] op = "list_work_groups" -> State
      [] op = "list_data_catalogs" -> CatalogName

\* the response to the request of page i of operation op
Response(op, i) ==
    [field |-> ResponseField(op),
     list |-> [j \in 1..Len(pages[i]) |->
                  [key |-> WireKey(op), val |-> pages[i][j]]]]

(***************************************************************************)
(* camel_dict_to_snake_dict on a record of one key.                        *)
(***************************************************************************)
RECURSIVE camel_to_snake_from(_, _)
camel_to_snake_from(s, i) ==
    IF i > Len(s) THEN <<>>
    ELSE LET c == s[i]
             boundary == /\ i > 1
                         /\ c \in Upper
                         /\ \/ i < Len(s) /\ s[i + 1] \in LowerCh
                            \/ s[i - 1] \in LowerCh
             lc == IF c \in Upper THEN ToLower[c] ELSE c
         IN  (IF boundary THEN <<"_", lc>> ELSE <<lc>>)
                 \o camel_to_snake_from(s, i + 1)

camel_to_snake(s) == camel_to_snake_from(s, 1)

camel_dict_to_snake_dict(d) == [key |-> camel_to_snake(d.key), val |-> d.val]

(***************************************************************************)
(* _athena(module), lines 155-182.                                         *)
(***************************************************************************)
NoRequest == [op |-> None, CatalogName |-> None, DatabaseName |-> None]
NoIt == [kind |-> None, op |-> None, next |-> 0, body |-> <<>>]

\* the if/elif chain of _athena: operation and arguments
athena_request(p) ==
    IF Truthy(p.list_databases)
    THEN [op |-> "list_databases", CatalogName |-> p.name,
          DatabaseName |-> None]
    ELSE IF Truthy(p.list_database_tables)
    THEN [op |-> "list_table_metadata", CatalogName |-> p.name,
          DatabaseName |-> p.database_name]
    ELSE IF Truthy(p.list_work_groups)
    THEN [op |-> "list_work_groups", CatalogName |-> None,
          DatabaseName |-> None]
    ELSE [op |-> "list_data_catalogs", CatalogName |-> None,
          DatabaseName |-> None]

\* does the selected branch end in `return athena.list_work_groups()`
single_shot(p, canp) ==
    /\ ~Truthy(p.list_databases)
    /\ ~Truthy(p.list_database_tables)
    /\ Truthy(p.list_work_groups)
    /\ ~canp

\* what the except clause does with a (BotoCoreError, ClientError):
\* module.fail_json_aws(e, ...) ends the process, nothing is re-raised
except_clause(kind) == "fail_json_aws"

\* One execution of the body.  fault names the statement at which the SDK
\* raises ("none": nowhere), kind the error.  The result tells how the body
\* ended: "return", "fail_json_aws" (process ended) or "raise" (an exception
\* left the function).
athena_body(p, canp, fault, kind) ==
    LET req == athena_request(p)
        failed(cl, rq, cs) ==
            [how |-> except_clause(kind), client |-> cl, requested |-> rq,
             calls |-> cs, it |-> NoIt, err |-> kind]
    IN  IF fault = "client"
        THEN failed(FALSE, NoRequest, <<>>)
        ELSE IF single_shot(p, canp)
        THEN IF fault = "call"
             THEN failed(TRUE, req, <<req>>)
             ELSE [how |-> "return", client |-> TRUE, requested |-> req,
                   calls |-> <<req>>,
                   it |-> [kind |-> "dict", op |-> req.op, next |-> 0,
                           body |-> <<Response(req.op, 1)>>],
                   err |-> None]
        ELSE IF fault = "get_paginator"
             THEN failed(TRUE, req, <<>>)
             ELSE [how |-> "return", client |-> TRUE, requested |-> req,
                   calls |-> <<>>,
                   it |-> [kind |-> "PageIterator", op |-> req.op,
                           next |-> 1, body |-> <<>>],
                   err |-> None]

\* the statements at which the selected branch can raise
FaultPoints(p, canp) ==
    {"none", "client"} \cup
        (IF single_shot(p, canp) THEN {"call"} ELSE {"get_paginator"})

(***************************************************************************)
(* main(), lines 185-230.                                                  *)
(***************************************************************************)
\* a slip: the tables branch reads the field of the databases response
main_branch_wrong_field(p) ==
    IF Truthy(p.list_databases)
    THEN [field |-> "DatabaseList", key |-> "databases", paged |-> TRUE]
    ELSE IF Truthy(p.list_database_tables)
    THEN [field |-> "DatabaseList", key |-> "tables", paged |-> TRUE]
    ELSE IF Truthy(p.list_work_groups)
    THEN [field |-> "WorkGroups", key |-> "work_groups", paged |-> FALSE]
    ELSE [field |-> "DataCatalogsSummary", key |-> "catalogs", paged |-> TRUE]

\* the if/elif chain of main: response field read and output key
main_branch(p) ==
    IF Truthy(p.list_databases)
    THEN [field |-> "DatabaseList", key |-> "databases", paged |-> TRUE]
    ELSE IF Truthy(p.list_database_tables)
    THEN [field |-> "TableMetadataList", key |-> "tables", paged |-> TRUE]
    ELSE IF Truthy(p.list_work_groups)
    THEN [field |-> "WorkGroups", key |-> "work_groups", paged |-> FALSE]
    ELSE [field |-> "DataCatalogsSummary", key |-> "catalogs", paged |-> TRUE]

\* a slip: every record is inserted at the front
append_all_front(ret, list) ==
    [j \in 1..Len(list) |-> camel_dict_to_snake_dict(list[Len(list) + 1 - j])]
        \o ret

\* the inner for loop: append every record of the list, normalized
append_all(ret, list) ==
    ret \o [j \in 1..Len(list) |-> camel_dict_to_snake_dict(list[j])]

\* the supplied task arguments: every combination
Inputs ==
    [name : {None, "AwsDataCatalog"},
     database_name : {None, "sampledb"},
     list_databases : FlagValues,
     list_database_tables : FlagValues,
     list_work_groups : FlagValues]

RECURSIVE SeqsUpTo(_, _)
SeqsUpTo(S, n) ==
    IF n = 0 THEN {<<>>}
    ELSE LET shorter == SeqsUpTo(S, n - 1)
         IN  shorter \cup {Append(s, x) : s \in {t \in shorter : Len(t) = n - 1}, x \in S}

\* the result sets: one to MaxPages pages of zero to MaxRecs records; the
\* payload of a record is its place <<page, position>>, so all are distinct
PageSets ==
    { [i \in 1..Len(sz) |-> [j \in 1..sz[i] |-> <<i, j>>]] :
        sz \in SeqsUpTo(0..MaxRecs, MaxPages) \ {<<>>} }

Init ==
    /\ params \in Inputs
    /\ can_paginate \in BOOLEAN
    /\ pages \in PageSets
    /\ pc = "main"
    /\ client = FALSE
    /\ requested = NoRequest
    /\ calls = <<>>
    /\ _it = NoIt
    /\ default_return = <<>>
    /\ output = <<>>
    /\ attempts = 0
    /\ err = None
    /\ fieldRead = None
    /\ exc = None

\* module = AnsibleAWSModule(...): validation of the supplied arguments
AnsibleAWSModule ==
    /\ pc = "main"
    /\ pc' = IF Valid(params) THEN "_athena" ELSE "fail_json"
    /\ UNCHANGED <<params, can_paginate, pages, client, requested, calls,
                   _it, default_return, output, attempts, err, fieldRead, exc>>

\* _it = _athena(module): one execution of the decorated function.  The
\* decorator runs the body again when a retryable exception leaves it and
\* fewer than `retries` retries were made.
_athena ==
    /\ pc = "_athena"
    /\ \E fault \in FaultPoints(params, can_paginate), kind \in ErrKinds :
        LET res == athena_body(params, can_paginate, fault, kind)
        IN  /\ attempts' = attempts + 1
            /\ client' = res.client
            /\ requested' = res.requested
            /\ calls' = calls \o res.calls
            /\ _it' = res.it
            /\ err' = res.err
            /\ IF res.how = "raise"
               THEN /\ pc' = IF kind = "transient" /\ attempts < retries
                             THEN "_athena" ELSE "unhandled"
                    /\ exc' = IF pc' = "unhandled" THEN "ClientError" ELSE None
               ELSE /\ pc' = IF res.how = "return" THEN "consume"
                             ELSE "fail_json_aws"
                    /\ exc' = exc
    /\ UNCHANGED <<params, can_paginate, pages, default_return, output,
                   fieldRead>>

\* one turn of `for response in _it:` in the databases, tables and catalogs
\* branches: the page is requested, its records are appended; after the last
\* page the loop ends and exit_json is called
main_pages ==
    /\ pc = "consume"
    /\ main_branch(params).paged
    /\ LET b == main_branch(params)
           req == [requested EXCEPT !.op = _it.op]
       IN  /\ calls' = Append(calls, req)
           /\ \E outcome \in {"ok"} \cup ErrKinds :
                IF outcome # "ok"
                THEN /\ pc' = "unhandled"
                     /\ exc' = "ClientError"
                     /\ err' = outcome
                     /\ UNCHANGED <<_it, default_return, output, fieldRead>>
                ELSE LET response == Response(_it.op, _it.next)
                     IN  /\ fieldRead' = b.field
                         /\ err' = err
                         /\ IF response.field # b.field
                            THEN /\ pc' = "unhandled"
                                 /\ exc' = "KeyError"
                                 /\ UNCHANGED <<_it, default_return, output>>
                            ELSE /\ default_return' =
                                        append_all(default_return, response.list)
                                 /\ exc' = exc
                                 /\ IF _it.next = Len(pages)
                                    THEN /\ pc' = "exit_json"
                                         /\ output' = <<[key |-> b.key,
                                                value |-> default_return']>>
                                         /\ _it' = _it
                                    ELSE /\ pc' = "consume"
                                         /\ output' = output
                                         /\ _it' = [_it EXCEPT !.next = @ + 1]
    /\ UNCHANGED <<params, can_paginate, pages, client, requested, attempts>>

\* the work_groups branch: _it['WorkGroups'] is subscripted, its records are
\* appended and exit_json is called
main_work_groups ==
    /\ pc = "consume"
    /\ ~main_branch(params).paged
    /\ LET b == main_branch(params)
       IN  /\ fieldRead' = b.field
           /\ IF _it.kind = "PageIterator"
              THEN /\ pc' = "unhandled"
                   /\ exc' = "TypeError"
                   /\ UNCHANGED <<default_return, output>>
              ELSE IF _it.body[1].field # b.field
              THEN /\ pc' = "unhandled"
                   /\ exc' = "KeyError"
                   /\ UNCHANGED <<default_return, output>>
              ELSE /\ default_return' =
                          append_all(default_return, _it.body[1].list)
                   /\ output' = <<[key |-> b.key, value |-> default_return']>>
                   /\ pc' = "exit_json"
                   /\ exc' = exc
    /\ UNCHANGED <<params, can_paginate, pages, client, requested, calls,
                   _it, attempts, err>>

Next ==
    \/ AnsibleAWSModule
    \/ _athena
    \/ main_pages
    \/ main_work_groups

Spec == Init /\ [][Next]_vars

(***************************************************************************)
(* Vocabulary of the properties.                                           *)
(***************************************************************************)
ModeFlags == {"list_databases", "list_database_tables", "list_work_groups"}
TrueFlags == {f \in ModeFlags : params[f] = "True"}
SuppliedFlags == {f \in ModeFlags : params[f] # None}

\* the invocation has ended
Terminal == pc \in {"fail_json", "fail_json_aws", "exit_json", "unhandled"}

\* validation has not passed (yet), and the service was not touched
NotPastValidation ==
    /\ pc \in {"main", "fail_json"}
    /\ ~client
    /\ requested = NoRequest
    /\ calls = <<>>
    /\ attempts = 0

\* the output key of the active mode
ModeKey ==
    IF "list_databases" \in TrueFlags THEN "databases"
    ELSE IF "list_database_tables" \in TrueFlags THEN "tables"
    ELSE IF "list_work_groups" \in TrueFlags THEN "work_groups"
    ELSE "catalogs"

\* the request of the active mode
ModeRequest ==
    IF "list_databases" \in TrueFlags
    THEN [op |-> "list_databases", CatalogName |-> params.name,
          DatabaseName |-> None]
    ELSE IF "list_database_tables" \in TrueFlags
    THEN [op |-> "list_table_metadata", CatalogName |-> params.name,
          DatabaseName |-> params.database_name]
    ELSE IF "list_work_groups" \in TrueFlags
    THEN [op |-> "list_work_groups", CatalogName |-> None,
          DatabaseName |-> None]
    ELSE [op |-> "list_data_catalogs", CatalogName |-> None,
          DatabaseName |-> None]

\* the snake_case key of the records under an output key
SnakeKey(key) ==
    CASE key = "catalogs" -> <<"c","a","t","a","l","o","g","_","n","a","m","e">>
      [] key = "databases" -> <<"n","a","m","e">>
      [] key = "tables" -> <<"t","a","b","l","e","_","t","y","p","e">>
      [] key = "work_groups" -> <<"s","t","a","t","e">>

\* the normalized records of a sequence of payloads
Normalized(key, payloads) ==
    [j \in 1..Len(payloads) |-> [key |-> SnakeKey(key), val |-> payloads[j]]]

RECURSIVE Flatten(_)
Flatten(pp) == IF pp = <<>> THEN <<>> ELSE Head(pp) \o Flatten(Tail(pp))

(***************************************************************************)
(* C1: an input with more than one of list_databases,                      *)
(* list_database_tables, list_work_groups true fails validation: no        *)
(* client is created, no operation is selected and no request is sent.     *)
(***************************************************************************)
C1_MultipleModesRejected ==
    Cardinality(TrueFlags) > 1 => NotPastValidation

C1_Witness ==
    /\ Cardinality(TrueFlags) > 1
    /\ params.name # None
    /\ params.database_name # None
    /\ pc = "fail_json"

(***************************************************************************)
(* C2: list_databases=true without name, and list_database_tables=true     *)
(* without name or database_name, fail validation before any service       *)
(* call; list_databases=true with name (no other flag supplied) and        *)
(* list_database_tables=true with name and database_name (no other flag    *)
(* supplied) pass validation and go on to _athena.                         *)
(***************************************************************************)
C2_MissingName ==
    \/ params.list_databases = "True" /\ params.name = None
    \/ /\ params.list_database_tables = "True"
       /\ (params.name = None \/ params.database_name = None)

C2_Complete ==
    \/ /\ params.list_databases = "True"
       /\ SuppliedFlags = {"list_databases"}
       /\ params.name # None
    \/ /\ params.list_database_tables = "True"
       /\ SuppliedFlags = {"list_database_tables"}
       /\ params.name # None
       /\ params.database_name # None

C2_RequiredNames ==
    /\ C2_MissingName => NotPastValidation
    /\ C2_Complete => pc # "fail_json" /\ (pc = "main" \/ pc = "_athena" \/ attempts > 0)

C2_Witness ==
    /\ params.list_database_tables = "True"
    /\ C2_Complete
    /\ calls # <<>>
    /\ calls[1] = [op |-> "list_table_metadata",
                   CatalogName |-> "AwsDataCatalog",
                   DatabaseName |-> "sampledb"]

(***************************************************************************)
(* C3: list_work_groups=true together with name or database_name fails     *)
(* validation and list_work_groups is never selected or called;            *)
(* list_work_groups=true alone (name, database_name and the other flags    *)
(* not supplied) passes validation.                                        *)
(***************************************************************************)
C3_WorkGroupsExclusive ==
    /\ params.list_work_groups = "True"
         /\ (params.name # None \/ params.database_name # None)
       => NotPastValidation
    /\ params.list_work_groups = "True"
         /\ SuppliedFlags = {"list_work_groups"}
         /\ params.name = None /\ params.database_name = None
       => pc # "fail_json" /\ (pc = "main" \/ pc = "_athena" \/ attempts > 0)

C3_Witness ==
    /\ params.list_work_groups = "True"
    /\ params.name = None
    /\ params.database_name # None
    /\ SuppliedFlags = {"list_work_groups"}
    /\ pc = "fail_json"

(***************************************************************************)
(* C4: an invocation that passed validation and met no service error ends  *)
(* in exit_json with exactly one output key, the one of the active mode;   *)
(* never two keys, never the key of another mode.                          *)
(***************************************************************************)
C4_OneOutputKeyOfMode ==
    /\ Len(output) <= 1
    /\ output # <<>> => output[1].key = ModeKey
    /\ Terminal /\ pc # "fail_json" /\ err = None
       => pc = "exit_json" /\ Len(output) = 1

(***************************************************************************)
(* C5: with list_work_groups=true the value _athena returns is consumed    *)
(* without failure, both when list_work_groups can be paginated and when   *)
(* it cannot, and the invocation returns work_groups.                      *)
(***************************************************************************)
C5_WorkGroupsConsumed ==
    params.list_work_groups = "True" =>
        /\ exc # "TypeError"
        /\ fieldRead # None => pc = "exit_json" /\ output[1].key = "work_groups"

(***************************************************************************)
(* C6: a non-retryable service error, wherever it is raised, ends the      *)
(* invocation in fail_json_aws, never in an unhandled exception.           *)
(***************************************************************************)
C6_ServiceErrorReported ==
    err = "terminal" => pc = "fail_json_aws" /\ exc = None

(***************************************************************************)
(* C7: no partial result: nothing is emitted after a failed fetch, and     *)
(* what is emitted holds the records of all pages of the result set.       *)
(***************************************************************************)
C7_NoPartialResult ==
    /\ err # None => output = <<>>
    /\ output # <<>> => Len(output[1].value) = Len(Flatten(pages))

(***************************************************************************)
(* C8: a transient failure is retried; failure is reported only after      *)
(* the attempts are exhausted.                                             *)
(***************************************************************************)
C8_FailureOnlyAfterRetries ==
    err = "transient" /\ Terminal => attempts >= retries

(***************************************************************************)
(* C9: in the catalogs, databases and tables modes the pages are pulled    *)
(* one after another and the emitted sequence is the concatenation, in     *)
(* page order and within-page order, of the normalized records of every    *)
(* page: nothing dropped, duplicated or reordered.                         *)
(***************************************************************************)
C9_PagesConcatenated ==
    "list_work_groups" \notin TrueFlags =>
        /\ pc = "consume" =>
             /\ Len(calls) = _it.next - 1
             /\ default_return =
                   Normalized(ModeKey, Flatten(SubSeq(pages, 1, _it.next - 1)))
        /\ pc = "exit_json" =>
             /\ Len(calls) = Len(pages)
             /\ output = <<[key |-> ModeKey,
                            value |-> Normalized(ModeKey, Flatten(pages))]>>

C9_Witness ==
    /\ pc = "exit_json"
    /\ ModeKey = "catalogs"
    /\ Len(pages) = 3
    /\ Len(pages[1]) = 2
    /\ pages[2] = <<>>
    /\ Len(pages[3]) = 1
    /\ Len(output[1].value) = 3

(***************************************************************************)
(* C10: an invocation that passed validation selects the one operation of  *)
(* its mode, with the arguments of its mode, every request it sends is     *)
(* that request, and the response field main reads is the field of the     *)
(* operation _athena selected.                                             *)
(***************************************************************************)
C10_OperationMatchesMode ==
    /\ requested \in {NoRequest, ModeRequest}
    /\ pc \in {"consume", "exit_json", "unhandled"} => requested = ModeRequest
    /\ \A i \in 1..Len(calls) : calls[i] = ModeRequest
    /\ fieldRead # None => fieldRead = ResponseField(requested.op)
    /\ exc # "KeyError"

C10_Witness ==
    /\ pc = "exit_json"
    /\ TrueFlags = {"list_database_tables"}
    /\ requested.op = "list_table_metadata"
    /\ fieldRead = "TableMetadataList"
    /\ Len(calls) = 2

=============================================================================
